---- MODULE Spec2Model ----
(***************************************************************************)
(* RegInsightDemo: the chunk -> embed -> index pipeline of                 *)
(* notebooks/embed_index.py.                                               *)
(*                                                                         *)
(* Five specifications:                                                    *)
(*   Spec       main(): build_index, glob, then per document chunk_text,   *)
(*              embed (tenacity retry loop) and upload_documents, run up   *)
(*              to MaxRuns times over the same directory and index.        *)
(*   SpecChunk  chunk_text(text, max_tokens) applied to every text of at   *)
(*              most MaxTextLen characters and every limit 1..MaxLimit.    *)
(*   SpecStale  Spec started on an index that holds an entry of an earlier  *)
(*              run over a longer version of a filing.                     *)
(*   SpecEmbed  embed(text) called MaxCalls times in a row, with the wait   *)
(*              tenacity takes between two attempts.                       *)
(*   SpecIngest main() of notebooks/ingest_sec_filings.py, run up to        *)
(*              MaxIngestRuns times over the same output directory.        *)
(*                                                                         *)
(* A text is a sequence of one-character strings; a word is a non-empty    *)
(* sequence of non-whitespace characters.                                  *)
(***************************************************************************)
EXTENDS Integers, Sequences, FiniteSets, TLC

VARIABLES
    \* ---- chunk_text called on its own (SpecChunk)
    ct_pc,            \* "call" before chunk_text runs, "returned" after
    arg_text,         \* chunk_text's argument text
    arg_max_tokens,   \* chunk_text's argument max_tokens
    ret_chunks,       \* chunk_text's return value
    \* ---- configuration and the world outside the process
    DEPLOYMENT,       \* EMBED_DEPLOYMENT, read once at import
    dir,              \* glob's answer for DATA_DIR/*.html: a list of files
    indexDim,         \* vector dimensions of the index the service holds, 0: no index
    index,            \* the service's entries: id -> [content, vector]
    \* ---- main()
    run,              \* which execution of main() this is
    pc,               \* main's position
    exc,              \* the exception that left main(), "" when none
    schema,           \* what build_index's declaration came to in this run
    docs,             \* main's local docs
    di,               \* position of html in docs (1-based)
    chunks,           \* chunk_text(text) of the current document
    ci,               \* enumerate's i for the current chunk (0-based)
    events,           \* what this run did to the outside, in order
    stdout,           \* the lines this run has printed
    \* ---- embed(chunk): the tenacity loop of one call
    attempt_number,   \* tenacity's retry_state.attempt_number
    outcomes,         \* the provider's outcome at each attempt of this call
    sleeps,           \* backoff waits of this call
    vector,           \* embed's return value
    \* ---- what the previous run left
    prevIds,          \* ids in the index when the previous run ended
    prevComplete,     \* the previous run indexed every document and stored every entry
    prevEnd,          \* how the previous run ended: main's last position
    \* ---- embed(text) called on its own (SpecEmbed)
    call_pc,          \* "idle", "attempt", "returned", "raised"; "off" elsewhere
    call_text,        \* embed's argument text
    wait,             \* the last wait tenacity took in this call
    highs,            \* the upper bounds of the waits of this call, in order
    calls,            \* the calls that have ended: attempts made, waits, how it ended
    \* ---- ingest_sec_filings.py (SpecIngest)
    ingest_pc,        \* position of the ingest main(); "off" elsewhere
    ingest_run,       \* which execution of the ingest main() this is
    feed_result,      \* how fetch_feed / parse_entries ended: "ok" or the error
    entries,          \* parse_entries' list (or the samples), as accessions
    ei,               \* position of e in entries (1-based)
    output_dir,       \* OUTPUT_DIR: file name -> content
    visited,          \* what was done for each entry of this run, in order
    ingest_stdout,    \* the lines the ingest run has printed
    ingest_exc        \* the error that left the ingest main(), "" when none

ctVars == <<ct_pc, arg_text, arg_max_tokens, ret_chunks>>
worldVars == <<DEPLOYMENT, dir, indexDim, index>>
mainVars == <<run, pc, exc, schema, docs, di, chunks, ci, events, stdout>>
embedVars == <<attempt_number, outcomes, sleeps, vector>>
prevVars == <<prevIds, prevComplete, prevEnd>>
callVars == <<call_pc, call_text, wait, highs, calls>>
ingestVars == <<ingest_pc, ingest_run, feed_result, entries, ei, output_dir, visited,
                ingest_stdout, ingest_exc>>
vars == <<ctVars, worldVars, mainVars, embedVars, prevVars, callVars, ingestVars>>

-----------------------------------------------------------------------------
(* Bounds of the model *)

\* longest text given to chunk_text in SpecChunk
MaxTextLen == 7
\* largest max_tokens given to chunk_text in SpecChunk
MaxLimit == 3
\* the chunk limit main() runs with; stands for the default max_tokens=800
DefaultMaxTokens == 2
\* most files in DATA_DIR
MaxDocs == 2
\* executions of main() over the same directory and index
MaxRuns == 2
\* embed calls in a row in SpecEmbed
MaxCalls == 2
\* most entries in the feed
MaxEntries == 2
\* executions of the ingest main() over the same output directory
MaxIngestRuns == 2

-----------------------------------------------------------------------------
(* Program constants *)

\* stop_after_attempt(6)
max_attempt_number == 6
\* vector_dimensions=1536 of the declared vector field
VectorDimensions == 1536
\* output length of the model behind the default deployment, text-embedding-3-large
LargeModelDimensions == 3072
\* wait_random_exponential(min=1, max=10); tenacity's multiplier=1, exp_base=2
wait_min == 1
wait_max == 10
exp_base == 2

-----------------------------------------------------------------------------
(* Texts *)

Whitespace == {" ", "\n"}
Letters == {"a", "b"}
Chars == Letters \cup Whitespace

RECURSIVE TextsOfLen(_)
TextsOfLen(n) ==
    IF n = 0 THEN {<<>>}
    ELSE {Append(t, c) : t \in TextsOfLen(n - 1), c \in Chars}

Texts == UNION {TextsOfLen(n) : n \in 0..MaxTextLen}

\* str.split(): scan the text, cut at every run of whitespace, drop empty words
RECURSIVE split_scan(_, _, _, _)
split_scan(text, k, word, words) ==
    IF k > Len(text)
    THEN IF word # <<>> THEN Append(words, word) ELSE words
    ELSE IF text[k] \in Whitespace
         THEN split_scan(text, k + 1, <<>>,
                         IF word # <<>> THEN Append(words, word) ELSE words)
         ELSE split_scan(text, k + 1, Append(word, text[k]), words)

split(text) == split_scan(text, 1, <<>>, <<>>)

\* " ".join(chunk)
RECURSIVE join(_)
join(words) ==
    IF words = <<>> THEN <<>>
    ELSE IF Len(words) = 1 THEN words[1]
    ELSE words[1] \o <<" ">> \o join(Tail(words))

\* the test that flushes the buffer: tokens >= max_tokens
flush_mutant(tokens, max_tokens) == tokens > max_tokens
flush(tokens, max_tokens) == tokens >= max_tokens

\* the trailing flush: if chunk: chunks.append(...)
remainder_mutant(chunk, out) == Append(out, join(chunk))
remainder(chunk, out) == IF chunk # <<>> THEN Append(out, join(chunk)) ELSE out

\* the buffer after a flush: chunk, tokens = [], 0
reset_mutant(chunk) == chunk
reset(chunk) == <<>>

\* the for loop of chunk_text over words[k..]
RECURSIVE chunk_loop(_, _, _, _, _, _)
chunk_loop(words, k, chunk, out, tokens, max_tokens) ==
    IF k > Len(words) THEN remainder(chunk, out)
    ELSE LET tokens1 == tokens + 1
             chunk1 == Append(chunk, words[k])
         IN IF flush(tokens1, max_tokens)
            THEN chunk_loop(words, k + 1, reset(chunk1), Append(out, join(chunk1)), 0,
                            max_tokens)
            ELSE chunk_loop(words, k + 1, chunk1, out, tokens1, max_tokens)

chunk_text(text, max_tokens) == chunk_loop(split(text), 1, <<>>, <<>>, 0, max_tokens)

\* the words of a list of chunks, chunk after chunk
RECURSIVE TokensOf(_)
TokensOf(cs) == IF cs = <<>> THEN <<>> ELSE split(cs[1]) \o TokensOf(Tail(cs))

-----------------------------------------------------------------------------
(* Chunk_text on its own *)

\* embed is not called on its own
CallOff ==
    /\ call_pc = "off"
    /\ call_text = <<>>
    /\ wait = 0
    /\ highs = <<>>
    /\ calls = <<>>

\* the ingest script is not run
IngestOff ==
    /\ ingest_pc = "off"
    /\ ingest_run = 0
    /\ feed_result = "none"
    /\ entries = <<>>
    /\ ei = 0
    /\ output_dir = <<>>
    /\ visited = <<>>
    /\ ingest_stdout = <<>>
    /\ ingest_exc = ""

InitChunkArgs ==
    /\ ct_pc = "call"
    /\ arg_text \in Texts
    /\ arg_max_tokens \in 1..MaxLimit
    /\ ret_chunks = <<>>

\* chunks = chunk_text(text, max_tokens)
ChunkTextCall ==
    /\ ct_pc = "call"
    /\ ret_chunks' = chunk_text(arg_text, arg_max_tokens)
    /\ ct_pc' = "returned"
    /\ UNCHANGED <<arg_text, arg_max_tokens>>
    /\ UNCHANGED <<worldVars, mainVars, embedVars, prevVars, callVars, ingestVars>>

-----------------------------------------------------------------------------
(* The directory, the provider and the index service *)

DATA_DIR == "./data/sec_filings"
Tags == {"<p>", "</p>"}

\* n words a b a b ... separated by single blanks, as characters
RECURSIVE WordsText(_)
WordsText(n) ==
    IF n = 0 THEN <<>>
    ELSE IF n = 1 THEN <<"a">>
    ELSE WordsText(n - 1) \o <<" ", IF n % 2 = 1 THEN "a" ELSE "b">>

File(stem, body) ==
    [path |-> <<DATA_DIR, stem, ".html">>, html |-> <<"<p>">> \o body \o <<"</p>">>]

\* the filings that may lie in DATA_DIR: no token, one token, two full chunks
Filings ==
    { File("empty", <<" ", "\n">>),
      File("short", WordsText(1)),
      File("ACME-2024-10K", WordsText(2 * DefaultMaxTokens)) }

RECURSIVE Listings(_)
Listings(n) ==
    IF n = 0 THEN {<<>>}
    ELSE Listings(n - 1) \cup
         {Append(l, f) : l \in {m \in Listings(n - 1) : Len(m) = n - 1},
                         f \in Filings}

Range(s) == {s[k] : k \in 1..Len(s)}

\* glob.glob names every file once, in an order of its own choosing
Directories == {l \in Listings(MaxDocs) : Cardinality(Range(l)) = Len(l)}

Deployments == {"text-embedding-3-large", "text-embedding-ada-002"}

\* length of the vectors the model behind a deployment returns
ModelDimensions(deployment) ==
    IF deployment = "text-embedding-3-large" THEN LargeModelDimensions
    ELSE VectorDimensions

\* soup.get_text(): the text nodes, tags dropped, nothing put between them
NotTag(c) == c \notin Tags
get_text(html) == SelectSeq(html, NotTag)

\* Path(html).stem
Stem(html) == html[2]

\* f"{Path(html).stem}_{i}"
EntryId_onebased(html, i) == Stem(html) \o "_" \o ToString(i + 1)
EntryId_noordinal(html, i) == Stem(html)
EntryId_mutant(html, i) == Stem(html) \o "_" \o ToString(i + 10 * run)
EntryId(html, i) == Stem(html) \o "_" \o ToString(i)

NoVector == [dim |-> 0, of |-> <<>>]
NoDoc == [id |-> "", content |-> <<>>, vector |-> NoVector]

\* openai.Embedding.create(engine=DEPLOYMENT, input=[text]) when it answers
Embedding_create(text) ==
    [data |-> << [embedding |-> [dim |-> ModelDimensions(DEPLOYMENT), of |-> text]] >>]

\* resp["data"][0]["embedding"]
embedding_of(resp) == resp.data[1].embedding

\* one step of a run as the outside sees it: op on chunk i of document d
Event(op, d, i, doc, res) == [op |-> op, d |-> d, i |-> i, doc |-> doc, res |-> res]

\* the service takes a declaration when there is no index yet or the index has
\* the same vector field; it refuses to change the dimensions of a field
DeclarationAccepted == indexDim \in {0, VectorDimensions}

\* the service can store an entry only in an existing index whose vector field
\* has the entry's length
Storable(doc) == indexDim # 0 /\ doc.vector.dim = indexDim

\* upload: insert the entry, or replace the one stored under its id
Put_alone(ix, doc) ==
    [id \in {doc.id} |-> [content |-> doc.content, vector |-> doc.vector]]
Put_merge(ix, doc) ==
    [id \in DOMAIN ix |->
        IF id = doc.id THEN [content |-> doc.content, vector |-> doc.vector]
        ELSE ix[id]]
Put(ix, doc) ==
    [id \in DOMAIN ix \cup {doc.id} |->
        IF id = doc.id THEN [content |-> doc.content, vector |-> doc.vector]
        ELSE ix[id]]

EmptyIndex == [id \in {} |-> NoDoc]

-----------------------------------------------------------------------------
(* main() *)

EmbedIdle ==
    /\ attempt_number = 0
    /\ outcomes = <<>>
    /\ sleeps = 0
    /\ vector = NoVector

RunStart ==
    /\ pc = "build_index"
    /\ exc = ""
    /\ schema = "none"
    /\ docs = <<>>
    /\ di = 0
    /\ chunks = <<>>
    /\ ci = 0
    /\ events = <<>>
    /\ stdout = <<>>

ChunkOff ==
    /\ ct_pc = "off"
    /\ arg_text = <<>>
    /\ arg_max_tokens = DefaultMaxTokens
    /\ ret_chunks = <<>>

Init ==
    /\ ChunkOff
    /\ DEPLOYMENT \in Deployments
    /\ dir \in Directories
    /\ indexDim \in {0, VectorDimensions, LargeModelDimensions}
    /\ index = EmptyIndex
    /\ run = 1
    /\ RunStart
    /\ EmbedIdle
    /\ prevIds = {}
    /\ prevComplete = FALSE
    /\ prevEnd = "none"
    /\ CallOff
    /\ IngestOff

\* one printed line: its text and the document it names (0: none)
Line(text, d) == [text |-> text, d |-> d]

\* where main() goes on after build_index() has come to `declaration`:
\* the handler of lines 463-466 prints and build_index returns None
after_build_index(declaration) == "glob"

\* build_index(): the definition is built and create_or_update_index takes it.
\* Of build_index's prints only the one that tells how the declaration ended is
\* kept in stdout.
BuildIndexDeclared ==
    /\ pc = "build_index"
    /\ DeclarationAccepted
    /\ indexDim' = VectorDimensions
    /\ schema' = "declared"
    /\ events' = Append(events, Event("declare", 0, 0, NoDoc, "accepted"))
    /\ stdout' = Append(stdout, Line("Successfully created index", 0))
    /\ pc' = after_build_index("declared")
    /\ UNCHANGED <<DEPLOYMENT, dir, index, run, exc, docs, di, chunks, ci>>
    /\ UNCHANGED <<ctVars, embedVars, prevVars, callVars, ingestVars>>

\* build_index(): create_or_update_index raises, the service refuses the definition
BuildIndexRejected ==
    /\ pc = "build_index"
    /\ ~DeclarationAccepted
    /\ schema' = "rejected"
    /\ events' = Append(events, Event("declare", 0, 0, NoDoc, "rejected"))
    /\ stdout' = Append(stdout, Line("Error creating index", 0))
    /\ pc' = after_build_index("rejected")
    /\ UNCHANGED <<worldVars, run, exc, docs, di, chunks, ci>>
    /\ UNCHANGED <<ctVars, embedVars, prevVars, callVars, ingestVars>>

\* build_index(): building the definition raises inside the try block, before
\* create_or_update_index is reached
BuildIndexNotIssued ==
    /\ pc = "build_index"
    /\ schema' = "not_issued"
    /\ stdout' = Append(stdout, Line("Error creating index", 0))
    /\ pc' = after_build_index("not_issued")
    /\ UNCHANGED <<worldVars, run, exc, docs, di, chunks, ci, events>>
    /\ UNCHANGED <<ctVars, embedVars, prevVars, callVars, ingestVars>>

\* search_client = SearchClient(...); docs = glob.glob(...)
Glob ==
    /\ pc = "glob"
    /\ docs' = dir
    /\ di' = 1
    /\ pc' = "for_html"
    /\ UNCHANGED <<worldVars, run, exc, schema, chunks, ci, events>>
    /\ UNCHANGED <<ctVars, embedVars, prevVars, callVars, ingestVars>>
    /\ UNCHANGED stdout

\* for html in docs: open, get_text, chunk_text(text)
OpenDocument ==
    /\ pc = "for_html"
    /\ di <= Len(docs)
    /\ chunks' = chunk_text(get_text(docs[di].html), DefaultMaxTokens)
    /\ ci' = 0
    /\ events' = Append(events, Event("read", di, 0, NoDoc, ""))
    /\ pc' = "for_chunk"
    /\ UNCHANGED <<worldVars, run, exc, schema, docs, di>>
    /\ UNCHANGED <<ctVars, embedVars, prevVars, callVars, ingestVars>>
    /\ UNCHANGED stdout

\* the for loop over docs is exhausted: main() returns
MainReturns ==
    /\ pc = "for_html"
    /\ di > Len(docs)
    /\ pc' = "done"
    /\ UNCHANGED <<worldVars, run, exc, schema, docs, di, chunks, ci, events>>
    /\ UNCHANGED <<ctVars, embedVars, prevVars, callVars, ingestVars>>
    /\ UNCHANGED stdout

\* for i, chunk in enumerate(...): vector = embed(chunk) is entered
EmbedCall ==
    /\ pc = "for_chunk"
    /\ ci < Len(chunks)
    /\ attempt_number' = 1
    /\ outcomes' = <<>>
    /\ sleeps' = 0
    /\ vector' = NoVector
    /\ events' = Append(events, Event("embed", di, ci, NoDoc, ""))
    /\ pc' = "embed"
    /\ UNCHANGED <<worldVars, run, exc, schema, docs, di, chunks, ci>>
    /\ UNCHANGED <<ctVars, prevVars, callVars, ingestVars>>
    /\ UNCHANGED stdout

\* the chunks of the document are exhausted: print(f"Indexed {html}")
Indexed ==
    /\ pc = "for_chunk"
    /\ ci >= Len(chunks)
    /\ events' = Append(events, Event("indexed", di, 0, NoDoc, ""))
    /\ stdout' = Append(stdout, Line("Indexed", di))
    /\ di' = di + 1
    /\ pc' = "for_html"
    /\ UNCHANGED <<worldVars, run, exc, schema, docs, chunks, ci>>
    /\ UNCHANGED <<ctVars, embedVars, prevVars, callVars, ingestVars>>

-----------------------------------------------------------------------------
(* embed(text) under @retry(wait=..., stop=stop_after_attempt(6)) *)

ErrorKinds == {"transient", "fatal"}

\* the decorator names no retry= predicate: tenacity's default retries on
\* every exception
retry_on(kind) == TRUE

\* stop_after_attempt(6)
stop_mutant(n) == n >= max_attempt_number + 1
stop_early(n) == n >= max_attempt_number - 1
stop(n) == n >= max_attempt_number

\* an attempt: the provider answers and embed returns the embedding
ProviderAnswers ==
    /\ pc = "embed"
    /\ outcomes' = Append(outcomes, "ok")
    /\ vector' = embedding_of(Embedding_create(chunks[ci + 1]))
    /\ pc' = "upload"
    /\ UNCHANGED <<attempt_number, sleeps>>
    /\ UNCHANGED <<worldVars, run, exc, schema, docs, di, chunks, ci, events>>
    /\ UNCHANGED <<ctVars, prevVars, callVars, ingestVars>>
    /\ UNCHANGED stdout

\* an attempt: the provider raises, tenacity sleeps and calls again
EmbedRetry ==
    /\ pc = "embed"
    /\ \E kind \in ErrorKinds :
        /\ retry_on(kind)
        /\ ~stop(attempt_number)
        /\ outcomes' = Append(outcomes, kind)
    /\ sleeps' = sleeps + 1
    /\ attempt_number' = attempt_number + 1
    /\ UNCHANGED vector
    /\ UNCHANGED <<worldVars, mainVars>>
    /\ UNCHANGED <<ctVars, prevVars, callVars, ingestVars>>

\* an attempt: the provider raises and tenacity gives up; nothing in main()
\* catches the error, which leaves main()
EmbedRaises ==
    /\ pc = "embed"
    /\ \E kind \in ErrorKinds :
        /\ ~retry_on(kind) \/ stop(attempt_number)
        /\ outcomes' = Append(outcomes, kind)
        /\ exc' = IF retry_on(kind) THEN "RetryError" ELSE kind
    /\ pc' = "crashed"
    /\ UNCHANGED <<attempt_number, sleeps, vector>>
    /\ UNCHANGED <<worldVars, run, schema, docs, di, chunks, ci, events>>
    /\ UNCHANGED <<ctVars, prevVars, callVars, ingestVars>>
    /\ UNCHANGED stdout

-----------------------------------------------------------------------------
(* search_client.upload_documents([doc]) *)

\* doc = {"id": ..., "content": chunk, "vector": vector}
CurrentDoc ==
    [id |-> EntryId(docs[di].path, ci), content |-> chunks[ci + 1], vector |-> vector]

\* what main() does after an upload that returned; embed's frame is gone
NextChunk_skip ==
    /\ ci' = ci + 2
    /\ pc' = "for_chunk"
    /\ attempt_number' = 0
    /\ outcomes' = <<>>
    /\ sleeps' = 0
    /\ vector' = NoVector
NextChunk ==
    /\ ci' = ci + 1
    /\ pc' = "for_chunk"
    /\ attempt_number' = 0
    /\ outcomes' = <<>>
    /\ sleeps' = 0
    /\ vector' = NoVector

\* the service stores the entry under its id, replacing what was there
UploadStored ==
    /\ pc = "upload"
    /\ Storable(CurrentDoc)
    /\ index' = Put(index, CurrentDoc)
    /\ events' = Append(events, Event("upload", di, ci, CurrentDoc, "stored"))
    /\ NextChunk
    /\ UNCHANGED <<DEPLOYMENT, dir, indexDim, run, exc, schema, docs, di, chunks>>
    /\ UNCHANGED <<ctVars, prevVars, callVars, ingestVars>>
    /\ UNCHANGED stdout

\* the call returns a result that reports the entry as failed; main() drops
\* the return value
UploadItemFailed ==
    /\ pc = "upload"
    /\ events' = Append(events, Event("upload", di, ci, CurrentDoc, "failed"))
    /\ NextChunk
    /\ UNCHANGED <<worldVars, run, exc, schema, docs, di, chunks>>
    /\ UNCHANGED <<ctVars, prevVars, callVars, ingestVars>>
    /\ UNCHANGED stdout

\* the call raises; nothing in main() catches the error
UploadRaises ==
    /\ pc = "upload"
    /\ events' = Append(events, Event("upload", di, ci, CurrentDoc, "raised"))
    /\ exc' = "HttpResponseError"
    /\ pc' = "crashed"
    /\ attempt_number' = 0
    /\ outcomes' = <<>>
    /\ sleeps' = 0
    /\ vector' = NoVector
    /\ UNCHANGED <<worldVars, run, schema, docs, di, chunks, ci>>
    /\ UNCHANGED <<ctVars, prevVars, callVars, ingestVars>>
    /\ UNCHANGED stdout

-----------------------------------------------------------------------------
(* The pipeline is run again over the same directory and index *)

\* main() has returned, or an error has left it
Terminal == pc \in {"done", "crashed"}
\* main() is under way
Running == {"build_index", "glob", "for_html", "for_chunk", "embed", "upload"}
\* the process is over
Ended == Terminal \/ pc = "interrupted"

ItemFailed == \E k \in 1..Len(events) : events[k].op = "upload" /\ events[k].res = "failed"

\* the process is stopped from outside (KeyboardInterrupt, kill) while main() runs
Interrupt ==
    /\ pc \in Running
    /\ pc' = "interrupted"
    /\ exc' = "KeyboardInterrupt"
    /\ attempt_number' = 0
    /\ outcomes' = <<>>
    /\ sleeps' = 0
    /\ vector' = NoVector
    /\ UNCHANGED <<worldVars, run, schema, docs, di, chunks, ci, events, stdout>>
    /\ UNCHANGED <<ctVars, prevVars, callVars, ingestVars>>

Rerun ==
    /\ Ended
    /\ run < MaxRuns
    /\ run' = run + 1
    /\ prevIds' = DOMAIN index
    /\ prevComplete' = (pc = "done" /\ ~ItemFailed)
    /\ prevEnd' = pc
    /\ pc' = "build_index"
    /\ exc' = ""
    /\ schema' = "none"
    /\ docs' = <<>>
    /\ di' = 0
    /\ chunks' = <<>>
    /\ ci' = 0
    /\ events' = <<>>
    /\ stdout' = <<>>
    /\ attempt_number' = 0
    /\ outcomes' = <<>>
    /\ sleeps' = 0
    /\ vector' = NoVector
    /\ UNCHANGED <<worldVars, ctVars, callVars, ingestVars>>

Next ==
    \/ BuildIndexDeclared
    \/ BuildIndexRejected
    \/ BuildIndexNotIssued
    \/ Glob
    \/ OpenDocument
    \/ MainReturns
    \/ EmbedCall
    \/ Indexed
    \/ ProviderAnswers
    \/ EmbedRetry
    \/ EmbedRaises
    \/ UploadStored
    \/ UploadItemFailed
    \/ UploadRaises
    \/ Interrupt
    \/ Rerun

Spec == Init /\ [][Next]_vars

-----------------------------------------------------------------------------
(* main() run over an index an earlier run has written to *)

\* what an earlier run over a longer version of the filing ACME-2024-10K left
\* under the ordinal after its present last one
StaleId == "ACME-2024-10K_2"
StaleIndex(dim) ==
    [id \in {StaleId} |->
        [content |-> WordsText(1), vector |-> [dim |-> dim, of |-> WordsText(1)]]]

InitStale ==
    /\ ChunkOff
    /\ DEPLOYMENT \in Deployments
    /\ dir \in {d \in Directories : \E k \in 1..Len(d) : Stem(d[k].path) = "ACME-2024-10K"}
    /\ indexDim \in {VectorDimensions, LargeModelDimensions}
    /\ index = StaleIndex(indexDim)
    /\ run = 1
    /\ RunStart
    /\ EmbedIdle
    /\ prevIds = {StaleId}
    /\ prevComplete = FALSE
    /\ prevEnd = "none"
    /\ CallOff
    /\ IngestOff

SpecStale == InitStale /\ [][Next]_vars

-----------------------------------------------------------------------------
(* chunk_text on every small text and limit *)

MainOff ==
    /\ DEPLOYMENT = "text-embedding-3-large"
    /\ dir = <<>>
    /\ indexDim = 0
    /\ index = EmptyIndex
    /\ run = 0
    /\ pc = "off"
    /\ exc = ""
    /\ schema = "none"
    /\ docs = <<>>
    /\ di = 0
    /\ chunks = <<>>
    /\ ci = 0
    /\ events = <<>>
    /\ stdout = <<>>
    /\ EmbedIdle
    /\ prevIds = {}
    /\ prevComplete = FALSE
    /\ prevEnd = "none"

InitChunk == InitChunkArgs /\ MainOff /\ CallOff /\ IngestOff

NextChunkText == ChunkTextCall

SpecChunk == InitChunk /\ [][NextChunkText]_vars

-----------------------------------------------------------------------------
(* What a state shows of the current embed call and of the run *)

\* embed has returned its vector to main(), which has not yet gone on
EmbedReturned == pc = "upload"
\* an error of embed has left main()
EmbedRaised == pc = "crashed" /\ exc # "HttpResponseError"

AllTransient(os) == \A k \in 1..Len(os) : os[k] = "transient"

Happened(op) == {k \in 1..Len(events) : events[k].op = op}
WasRead(d) == \E k \in Happened("read") : events[k].d = d

-----------------------------------------------------------------------------
(* Claims *)

\* C1: a fatal provider error is never retried: once the provider has raised a
\* fatal error in an embed call, that was the call's only invocation, no
\* backoff wait was made and the error has gone to the caller.
C1_FatalNeverRetried ==
    \A k \in 1..Len(outcomes) :
        outcomes[k] = "fatal" =>
            /\ Len(outcomes) = 1
            /\ sleeps = 0
            /\ EmbedRaised

\* C2: one failing document never halts the run: when a run has ended, every
\* document of the list has been read, also the ones after a document whose
\* chunk failed terminally.
C2_FailingDocumentDoesNotHaltRun ==
    (Terminal /\ exc # "") => \A d \in 1..Len(docs) : WasRead(d)

\* C3: the attempt budget is bounded: an embed call never invokes the provider
\* more than 6 times, and 6 transient failures end the call in an error that
\* goes to the caller.
C3_AttemptBudgetBounded ==
    /\ Len(outcomes) <= max_attempt_number
    /\ attempt_number <= max_attempt_number
    /\ (Len(outcomes) = max_attempt_number /\ AllTransient(outcomes)) =>
            (EmbedRaised /\ exc = "RetryError")

C3_Witness ==
    /\ EmbedRaised
    /\ exc = "RetryError"
    /\ Len(outcomes) = max_attempt_number
    /\ AllTransient(outcomes)
    /\ sleeps = max_attempt_number - 1

\* C4: transient failures below the budget are absorbed: after k < 6 transient
\* failures the call is still trying and no error has reached the caller, and
\* when the provider then answers, embed returns that answer's vector after
\* k + 1 invocations.
C4_TransientBelowBudgetAbsorbed ==
    LET n == Len(outcomes) IN
    /\ ((pc = "embed" \/ EmbedRaised) /\ n < max_attempt_number
            /\ AllTransient(outcomes)) =>
            (pc = "embed" /\ exc = "" /\ attempt_number = n + 1)
    /\ (n >= 1 /\ outcomes[n] = "ok" /\ AllTransient(SubSeq(outcomes, 1, n - 1))) =>
            /\ EmbedReturned
            /\ exc = ""
            /\ n <= max_attempt_number
            /\ attempt_number = n
            /\ vector = Embedding_create(chunks[ci + 1]).data[1].embedding

C4_Witness ==
    /\ EmbedReturned
    /\ Len(outcomes) = max_attempt_number
    /\ AllTransient(SubSeq(outcomes, 1, max_attempt_number - 1))
    /\ outcomes[max_attempt_number] = "ok"
    /\ vector.dim > 0

\* C5: round trip of segmentation: the words of the chunks chunk_text returns,
\* taken chunk after chunk, are exactly the words of the text, in order.
C5_RoundTrip ==
    ct_pc = "returned" => TokensOf(ret_chunks) = split(arg_text)

C5_Witness ==
    /\ ct_pc = "returned"
    /\ Len(ret_chunks) >= 2
    /\ Len(split(arg_text)) >= 3
    /\ \E k \in 1..Len(arg_text) : arg_text[k] = "\n"
    /\ \E k \in 1..Len(arg_text) : arg_text[k] = "b"

\* C6: chunk size bound: every chunk chunk_text returns has at least 1 and at
\* most max_tokens words, and every chunk but the last has exactly max_tokens.
C6_ChunkSizeBound ==
    ct_pc = "returned" =>
        \A k \in 1..Len(ret_chunks) :
            LET n == Len(split(ret_chunks[k])) IN
            /\ 1 <= n
            /\ n <= arg_max_tokens
            /\ (k < Len(ret_chunks) => n = arg_max_tokens)

C6_Witness ==
    /\ ct_pc = "returned"
    /\ arg_max_tokens = 2
    /\ Len(ret_chunks) = 2
    /\ Len(split(ret_chunks[1])) = 2
    /\ Len(split(ret_chunks[2])) = 1

C8_RejectedDeclarationIsFatal ==
    schema = "rejected" =>
        /\ pc = "crashed"
        /\ Happened("embed") = {}
        /\ Happened("upload") = {}

\* C9: schema first, exactly once: whenever a run has read a document, called
\* embed or uploaded an entry, and when it has ended, the declaration has been
\* issued exactly once in the run, as the run's first step.
C9_SchemaFirstExactlyOnce ==
    (Terminal \/ events # <<>>) =>
        /\ Cardinality(Happened("declare")) = 1
        /\ events[1].op = "declare"

\* C10: vector length matches the declared schema: every entry main() uploads
\* carries a vector of the declared 1536 dimensions.
C10_UploadedVectorLength ==
    \A k \in Happened("upload") : events[k].doc.vector.dim = VectorDimensions

-----------------------------------------------------------------------------
(* What a state shows of the documents of the run *)

\* the chunks main() makes of document d of the directory
ChunksOf(d) == chunk_text(get_text(dir[d].html), DefaultMaxTokens)

UploadsOf(d) == {k \in Happened("upload") : events[k].d = d}
EmbedsOf(d) == {k \in Happened("embed") : events[k].d = d}
WasIndexed(d) == \E k \in Happened("indexed") : events[k].d = d
\* the upload call of this event came back to main()
Returned(k) == events[k].res \in {"stored", "failed"}

-----------------------------------------------------------------------------
(* Claims C11..C20 *)

\* C11: a chunk failure aborts the rest of its document: when the embedding of
\* chunk k of a document has failed terminally, every entry stored for an
\* earlier chunk of the document is in the index as it was written, no chunk
\* of the document with ordinal >= k has been uploaded in the run, and the
\* document has not been reported as indexed.
C11_ChunkFailureKeepsEarlierEntries ==
    EmbedRaised =>
        /\ \A k \in UploadsOf(di) :
            /\ events[k].i < ci
            /\ events[k].res = "stored" =>
                /\ events[k].doc.id \in DOMAIN index
                /\ index[events[k].doc.id] =
                       [content |-> events[k].doc.content, vector |-> events[k].doc.vector]
        /\ \A j \in 0..(ci - 1) : \E k \in UploadsOf(di) : events[k].i = j
        /\ ~WasIndexed(di)

C11_Witness ==
    /\ EmbedRaised
    /\ ci = 1
    /\ \E k \in UploadsOf(di) :
        /\ events[k].i = 0
        /\ events[k].res = "stored"
        /\ events[k].doc.id \in DOMAIN index
    /\ Stem(docs[di].path) = "ACME-2024-10K"

\* C12: deterministic chunk identity: every uploaded entry has the id
\* "{stem}_{i}" and the text of chunk i of chunk_text's output, the j-th upload
\* of a document has ordinal j - 1, and the two-chunk filing ACME-2024-10K is
\* uploaded under ACME-2024-10K_0 and ACME-2024-10K_1.
C12_DeterministicChunkIdentity ==
    /\ \A k \in Happened("upload") :
        LET e == events[k] IN
        /\ e.i < Len(ChunksOf(e.d))
        /\ e.doc.id = dir[e.d].path[2] \o "_" \o ToString(e.i)
        /\ e.doc.content = ChunksOf(e.d)[e.i + 1]
        /\ Cardinality({j \in UploadsOf(e.d) : j <= k}) = e.i + 1
    /\ \A d \in 1..Len(docs) :
        (WasIndexed(d) /\ docs[d].path[2] = "ACME-2024-10K") =>
            {events[k].doc.id : k \in UploadsOf(d)} = {"ACME-2024-10K_0", "ACME-2024-10K_1"}

C12_Witness ==
    /\ pc = "done"
    /\ Len(docs) = 2
    /\ \E d \in 1..Len(docs) :
        /\ docs[d].path[2] = "ACME-2024-10K"
        /\ Cardinality(UploadsOf(d)) = 2
    /\ Cardinality(DOMAIN index) = 3

\* C13: entry ids never collide: two uploads of a run for different chunks
\* (another document or another ordinal) never carry the same id, so the index
\* holds one entry for every chunk stored in the run.
C13_EntryIdsNeverCollide ==
    /\ \A k1, k2 \in Happened("upload") :
        (events[k1].d # events[k2].d \/ events[k1].i # events[k2].i) =>
            events[k1].doc.id # events[k2].doc.id
    /\ Cardinality(DOMAIN index) >=
           Cardinality({<<events[k].d, events[k].i>> :
                           k \in {j \in Happened("upload") : events[j].res = "stored"}})

C13_Witness ==
    /\ pc = "done"
    /\ Cardinality({k \in Happened("upload") : events[k].res = "stored"}) = 3
    /\ Cardinality({events[k].d : k \in Happened("upload")}) = 2
    /\ Cardinality(DOMAIN index) = 3

\* the index a single uninterrupted run leaves when every chunk is embedded
\* and stored
AllChunks == {<<d, i>> \in (1..Len(dir)) \X (0..(2 * DefaultMaxTokens)) : i < Len(ChunksOf(d))}
IdOf(c) == dir[c[1]].path[2] \o "_" \o ToString(c[2])
FullIndex ==
    [id \in {IdOf(c) : c \in AllChunks} |->
        LET c == CHOOSE x \in AllChunks : IdOf(x) = id
            text == ChunksOf(c[1])[c[2] + 1]
        IN [content |-> text,
            vector |-> [dim |-> ModelDimensions(DEPLOYMENT), of |-> text]]]

\* C14: an interrupted run is repaired by re-running: when the run before was
\* interrupted, at whatever point, and this run has gone through every
\* document with every upload stored, the index holds exactly the ids and
\* contents a single uninterrupted run leaves.
C14_RerunRepairsInterruptedRun ==
    (run >= 2 /\ prevEnd = "interrupted" /\ pc = "done" /\ ~ItemFailed) =>
        index = FullIndex

C14_Witness ==
    /\ run = 2
    /\ prevEnd = "interrupted"
    /\ Cardinality(prevIds) = 2
    /\ pc = "done"
    /\ ~ItemFailed
    /\ Cardinality(DOMAIN index) = 3
    /\ index = FullIndex

\* C15: the run ends successfully after attempting everything: when main()
\* has ended, no error has left it and every document of the directory has
\* been read and has come to its end.
C15_RunEndsSuccessfully ==
    Terminal =>
        /\ pc = "done"
        /\ exc = ""
        /\ \A d \in 1..Len(dir) : WasRead(d)

\* C16: empty document: a document with no word gives no chunk, is never the
\* subject of an embedding call or an upload, never makes the run fail, and is
\* reported as indexed once main() has gone past it.
C16_EmptyDocument ==
    \A d \in 1..Len(docs) :
        split(get_text(docs[d].html)) = <<>> =>
            /\ ChunksOf(d) = <<>>
            /\ EmbedsOf(d) = {}
            /\ UploadsOf(d) = {}
            /\ (pc = "crashed" => di # d)
            /\ ((di > d \/ pc = "done") => WasIndexed(d))

C16_Witness ==
    /\ pc = "done"
    /\ Len(docs) = 2
    /\ split(get_text(docs[1].html)) = <<>>
    /\ WasIndexed(1)
    /\ EmbedsOf(1) = {}
    /\ EmbedsOf(2) # {}

\* C17: the sink does not retry and surfaces failure per entry: a chunk is
\* uploaded at most once in a run, and when the write was not stored (the call
\* raised or answered with a failed result) the failure has left main() at
\* that chunk and the document is not reported as indexed.
C17_UploadFailureSurfaced ==
    /\ \A k1, k2 \in Happened("upload") :
        (events[k1].d = events[k2].d /\ events[k1].i = events[k2].i) => k1 = k2
    /\ \A k \in Happened("upload") :
        events[k].res # "stored" =>
            /\ pc = "crashed"
            /\ ~WasIndexed(events[k].d)

\* C18: stored entry equals what was written: for a document reported as
\* indexed in this run, the index holds under "{stem}_{i}", for every chunk i,
\* the chunk's text and the vector embed returned for it in this run.
C18_StoredEntryEqualsWritten ==
    \A d \in 1..Len(docs) :
        WasIndexed(d) =>
            \A i \in 0..(Len(ChunksOf(d)) - 1) :
                LET id == docs[d].path[2] \o "_" \o ToString(i) IN
                /\ id \in DOMAIN index
                /\ index[id].content = ChunksOf(d)[i + 1]
                /\ \E k \in UploadsOf(d) :
                    /\ events[k].i = i
                    /\ index[id].vector = events[k].doc.vector

\* C19: no error is swallowed without a log record: a refused or failed
\* declaration has left a printed line, and when an embed call has ended,
\* every error the provider raised in it has either left embed to the caller
\* or left a printed line naming it.
C19_NoErrorSwallowedSilently ==
    /\ schema \in {"rejected", "not_issued"} =>
        \E n \in 1..Len(stdout) : stdout[n].text = "Error creating index"
    /\ (EmbedReturned \/ EmbedRaised) =>
        \A k \in 1..Len(outcomes) :
            outcomes[k] # "ok" =>
                \/ k = Len(outcomes) /\ EmbedRaised
                \/ \E n \in 1..Len(stdout) : stdout[n].text = "Error embedding chunk"

\* C20: per-document ordering: a document is read only after the one before
\* was reported; embed is called for chunk 0 right after the read and for
\* chunk i + 1 right after the upload of chunk i came back; a chunk is
\* uploaded right after its embed call, with the vector embed returned for its
\* text; a document is reported only after an upload of each of its chunks
\* came back.
C20_PerDocumentOrdering ==
    \A k \in 1..Len(events) :
        LET e == events[k] IN
        /\ e.op = "read" =>
            \/ e.d = 1 /\ \A j \in 1..(k - 1) : events[j].op = "declare"
            \/ e.d > 1 /\ events[k - 1].op = "indexed" /\ events[k - 1].d = e.d - 1
        /\ e.op = "embed" =>
            /\ k > 1
            /\ \/ e.i = 0 /\ events[k - 1].op = "read" /\ events[k - 1].d = e.d
               \/ /\ e.i > 0
                  /\ events[k - 1].op = "upload"
                  /\ events[k - 1].d = e.d
                  /\ events[k - 1].i = e.i - 1
                  /\ Returned(k - 1)
        /\ e.op = "upload" =>
            /\ k > 1
            /\ events[k - 1].op = "embed"
            /\ events[k - 1].d = e.d
            /\ events[k - 1].i = e.i
            /\ e.doc.vector = [dim |-> ModelDimensions(DEPLOYMENT), of |-> e.doc.content]
        /\ e.op = "indexed" =>
            \A i \in 0..(Len(ChunksOf(e.d)) - 1) :
                \E j \in 1..(k - 1) :
                    /\ events[j].op = "upload"
                    /\ events[j].d = e.d
                    /\ events[j].i = i
                    /\ Returned(j)

C20_Witness ==
    /\ pc = "done"
    /\ Len(docs) = 2
    /\ Len(events) = 11
    /\ docs[1].path[2] = "ACME-2024-10K"
    /\ docs[2].path[2] = "short"

-----------------------------------------------------------------------------
(* embed(text) on its own: the tenacity loop with its waits *)

Min(a, b) == IF a <= b THEN a ELSE b
Max(a, b) == IF a >= b THEN a ELSE b

\* wait_exponential: the upper bound of the wait after attempt n,
\* max(min, min(exp_base ** (n - 1), max))
wait_high_uncapped(n) == Max(wait_min, exp_base ^ (n - 1))
wait_high(n) == Max(wait_min, Min(exp_base ^ (n - 1), wait_max))

\* wait_random_exponential: random.uniform up to the upper bound, in whole
\* time-units (from 0: tenacity releases differ in the lower end)
wait_random_exponential(n) == 0..wait_high(n)

\* the attempt number a call starts with: @retry makes a fresh retry state
\* for every call
begin_carry(previous) == Max(previous, 1)
begin(previous) == 1

CallTexts == {WordsText(1), WordsText(DefaultMaxTokens)}

InitEmbed ==
    /\ ChunkOff
    /\ MainOff
    /\ IngestOff
    /\ call_pc = "idle"
    /\ call_text = <<>>
    /\ wait = 0
    /\ highs = <<>>
    /\ calls = <<>>

\* embed(text) is called
CallBegins ==
    /\ call_pc = "idle"
    /\ Len(calls) < MaxCalls
    /\ call_text' \in CallTexts
    /\ attempt_number' = begin(attempt_number)
    /\ outcomes' = <<>>
    /\ sleeps' = 0
    /\ vector' = NoVector
    /\ wait' = 0
    /\ highs' = <<>>
    /\ call_pc' = "attempt"
    /\ UNCHANGED calls
    /\ UNCHANGED <<ctVars, worldVars, mainVars, prevVars, ingestVars>>

\* an attempt: the provider answers and embed returns the embedding
AttemptAnswers ==
    /\ call_pc = "attempt"
    /\ outcomes' = Append(outcomes, "ok")
    /\ vector' = embedding_of(Embedding_create(call_text))
    /\ call_pc' = "returned"
    /\ UNCHANGED <<attempt_number, sleeps, call_text, wait, highs, calls>>
    /\ UNCHANGED <<ctVars, worldVars, mainVars, prevVars, ingestVars>>

\* an attempt: the provider raises, tenacity sleeps and calls again
AttemptRetried ==
    /\ call_pc = "attempt"
    /\ \E kind \in ErrorKinds :
        /\ retry_on(kind)
        /\ ~stop(attempt_number)
        /\ outcomes' = Append(outcomes, kind)
    /\ wait' \in wait_random_exponential(attempt_number)
    /\ highs' = Append(highs, wait_high(attempt_number))
    /\ sleeps' = sleeps + 1
    /\ attempt_number' = attempt_number + 1
    /\ UNCHANGED <<vector, call_pc, call_text, calls>>
    /\ UNCHANGED <<ctVars, worldVars, mainVars, prevVars, ingestVars>>

\* an attempt: the provider raises and tenacity gives up
AttemptRaises ==
    /\ call_pc = "attempt"
    /\ \E kind \in ErrorKinds :
        /\ ~retry_on(kind) \/ stop(attempt_number)
        /\ outcomes' = Append(outcomes, kind)
    /\ call_pc' = "raised"
    /\ UNCHANGED <<attempt_number, sleeps, vector, call_text, wait, highs, calls>>
    /\ UNCHANGED <<ctVars, worldVars, mainVars, prevVars, ingestVars>>

\* the call is over: the caller has the vector or the error
CallEnds ==
    /\ call_pc \in {"returned", "raised"}
    /\ calls' = Append(calls, [attempts |-> Len(outcomes),
                               raised |-> call_pc = "raised",
                               highs |-> highs])
    /\ call_pc' = "idle"
    /\ outcomes' = <<>>
    /\ sleeps' = 0
    /\ vector' = NoVector
    /\ wait' = 0
    /\ highs' = <<>>
    /\ UNCHANGED <<attempt_number, call_text>>
    /\ UNCHANGED <<ctVars, worldVars, mainVars, prevVars, ingestVars>>

NextEmbed ==
    \/ CallBegins
    \/ AttemptAnswers
    \/ AttemptRetried
    \/ AttemptRaises
    \/ CallEnds

SpecEmbed == InitEmbed /\ [][NextEmbed]_vars

-----------------------------------------------------------------------------
(* ingest_sec_filings.py: main() and fetch_sample_filings() *)

OUTPUT_DIR == "./data/sec_filings"

\* accessions the feed can list: one filing only the feed knows and one that
\* is also among the samples
FeedAccessions == {"0001000000-24-000001", "0000320193-23-000077"}
\* the accessions of samples, in order
samples == <<"0000320193-23-000077", "0001326801-23-000022", "0001652044-23-000071">>

RECURSIVE Feeds(_)
Feeds(n) ==
    IF n = 0 THEN {<<>>}
    ELSE Feeds(n - 1) \cup {Append(es, a) : es \in {f \in Feeds(n - 1) : Len(f) = n - 1},
                                             a \in FeedAccessions}

\* os.path.join(OUTPUT_DIR, f"{e['accession']}.html")
outfile(accession) == OUTPUT_DIR \o "/" \o accession \o ".html"

\* os.path.exists(outfile)
exists_never(path, fs) == FALSE
exists(path, fs) == path \in DOMAIN fs

\* open(path, "w"/"wb") and f.write: the file is created or truncated
Written(fs, path, content) ==
    [f \in DOMAIN fs \cup {path} |-> IF f = path THEN content ELSE fs[f]]

\* what a file holds: who wrote it, and whether the write went through
Content(by, whole) == [by |-> by, whole |-> whole]

\* the errors of requests, zipfile and open/write; all are Exceptions
FeedErrors == {"HTTPError", "AttributeError"}
DownloadErrors == {"HTTPError", "BadZipFile", "OSError"}
Exceptions == FeedErrors \cup DownloadErrors

\* except Exception as ex
except_none(err) == FALSE
except_Exception(err) == err \in Exceptions

Visit(k, did) == [e |-> k, did |-> did]

IngestRunStart ==
    /\ ingest_pc = "fetch_feed"
    /\ feed_result = "none"
    /\ entries = <<>>
    /\ ei = 0
    /\ visited = <<>>
    /\ ingest_stdout = <<>>
    /\ ingest_exc = ""

\* OUTPUT_DIR before the first run: empty, or holding one filing already
InitialDirs ==
    {<<>>, Written(<<>>, outfile(samples[1]), Content("before", TRUE))}

InitIngest ==
    /\ ChunkOff
    /\ MainOff
    /\ CallOff
    /\ ingest_run = 1
    /\ output_dir \in InitialDirs
    /\ IngestRunStart

\* fetch_feed() and parse_entries() return
FeedParsed ==
    /\ ingest_pc = "fetch_feed"
    /\ entries' \in Feeds(MaxEntries)
    /\ feed_result' = "ok"
    /\ ei' = 1
    /\ ingest_pc' = "for_e"
    /\ UNCHANGED <<ingest_run, output_dir, visited, ingest_stdout, ingest_exc>>
    /\ UNCHANGED <<ctVars, worldVars, mainVars, embedVars, prevVars, callVars>>

\* fetch_feed() or parse_entries() raises: the outer handler prints and calls
\* fetch_sample_filings()
FeedFails ==
    /\ ingest_pc = "fetch_feed"
    /\ \E err \in FeedErrors :
        /\ feed_result' = err
        /\ IF except_Exception(err)
           THEN /\ ingest_stdout' = ingest_stdout \o
                       <<"Error fetching from SEC API", "Falling back to sample filings...",
                         "Using fallback method to download sample filings...">>
                /\ entries' = samples
                /\ ei' = 1
                /\ ingest_pc' = "for_samples"
                /\ UNCHANGED ingest_exc
           ELSE /\ ingest_exc' = err
                /\ ingest_pc' = "crashed"
                /\ UNCHANGED <<ingest_stdout, entries, ei>>
    /\ UNCHANGED <<ingest_run, output_dir, visited>>
    /\ UNCHANGED <<ctVars, worldVars, mainVars, embedVars, prevVars, callVars>>

\* if not os.path.exists(outfile): false, nothing is done for the entry
EntrySkipped ==
    /\ ingest_pc = "for_e"
    /\ ei <= Len(entries)
    /\ exists(outfile(entries[ei]), output_dir)
    /\ visited' = Append(visited, Visit(ei, "skipped"))
    /\ ei' = ei + 1
    /\ UNCHANGED <<ingest_pc, ingest_run, feed_result, entries, output_dir,
                   ingest_stdout, ingest_exc>>
    /\ UNCHANGED <<ctVars, worldVars, mainVars, embedVars, prevVars, callVars>>

\* download_and_extract(e) writes the first html member of the zip
DownloadSaves ==
    /\ ingest_pc = "for_e"
    /\ ei <= Len(entries)
    /\ ~exists(outfile(entries[ei]), output_dir)
    /\ output_dir' = Written(output_dir, outfile(entries[ei]),
                             Content("download_and_extract", TRUE))
    /\ ingest_stdout' = Append(ingest_stdout, "Saved")
    /\ visited' = Append(visited, Visit(ei, "saved"))
    /\ ei' = ei + 1
    /\ UNCHANGED <<ingest_pc, ingest_run, feed_result, entries, ingest_exc>>
    /\ UNCHANGED <<ctVars, worldVars, mainVars, embedVars, prevVars, callVars>>

\* download_and_extract(e) finds no html member and returns None
DownloadFindsNoHtml ==
    /\ ingest_pc = "for_e"
    /\ ei <= Len(entries)
    /\ ~exists(outfile(entries[ei]), output_dir)
    /\ ingest_stdout' = Append(ingest_stdout, "Warning: No matching HTML file found")
    /\ visited' = Append(visited, Visit(ei, "no_html"))
    /\ ei' = ei + 1
    /\ UNCHANGED <<ingest_pc, ingest_run, feed_result, entries, output_dir, ingest_exc>>
    /\ UNCHANGED <<ctVars, worldVars, mainVars, embedVars, prevVars, callVars>>

\* download_and_extract(e) raises: the request or the zip fails before any
\* write, or the write fails and leaves the file it opened. The inner handler
\* prints; an error it does not take goes to the outer handler
DownloadRaises ==
    /\ ingest_pc = "for_e"
    /\ ei <= Len(entries)
    /\ ~exists(outfile(entries[ei]), output_dir)
    /\ \E err \in DownloadErrors :
        /\ output_dir' = IF err = "OSError"
                         THEN Written(output_dir, outfile(entries[ei]),
                                      Content("download_and_extract", FALSE))
                         ELSE output_dir
        /\ visited' = Append(visited, Visit(ei, "error"))
        /\ IF except_Exception(err)
           THEN /\ ingest_stdout' = Append(ingest_stdout, "Error:")
                /\ ei' = ei + 1
                /\ UNCHANGED <<ingest_pc, entries, ingest_exc>>
           ELSE IF except_Exception(err)
           THEN /\ ingest_stdout' = ingest_stdout \o
                       <<"Error fetching from SEC API", "Falling back to sample filings...",
                         "Using fallback method to download sample filings...">>
                /\ entries' = samples
                /\ ei' = 1
                /\ ingest_pc' = "for_samples"
                /\ UNCHANGED ingest_exc
           ELSE /\ ingest_exc' = err
                /\ ingest_pc' = "crashed"
                /\ UNCHANGED <<ingest_stdout, entries, ei>>
    /\ UNCHANGED <<ingest_run, feed_result>>
    /\ UNCHANGED <<ctVars, worldVars, mainVars, embedVars, prevVars, callVars>>

\* the loop over entries, or over samples, is exhausted: main() returns
IngestReturns ==
    /\ ingest_pc \in {"for_e", "for_samples"}
    /\ ei > Len(entries)
    /\ ingest_pc' = "done"
    /\ UNCHANGED <<ingest_run, feed_result, entries, ei, output_dir, visited,
                   ingest_stdout, ingest_exc>>
    /\ UNCHANGED <<ctVars, worldVars, mainVars, embedVars, prevVars, callVars>>

\* fetch_sample_filings: the sample's file exists, nothing is done
SampleSkipped ==
    /\ ingest_pc = "for_samples"
    /\ ei <= Len(entries)
    /\ exists(outfile(entries[ei]), output_dir)
    /\ visited' = Append(visited, Visit(ei, "skipped"))
    /\ ei' = ei + 1
    /\ UNCHANGED <<ingest_pc, ingest_run, feed_result, entries, output_dir,
                   ingest_stdout, ingest_exc>>
    /\ UNCHANGED <<ctVars, worldVars, mainVars, embedVars, prevVars, callVars>>

\* fetch_sample_filings: the sample's content is written
SampleCreated ==
    /\ ingest_pc = "for_samples"
    /\ ei <= Len(entries)
    /\ ~exists(outfile(entries[ei]), output_dir)
    /\ output_dir' = Written(output_dir, outfile(entries[ei]),
                             Content("fetch_sample_filings", TRUE))
    /\ ingest_stdout' = Append(ingest_stdout, "Created sample file")
    /\ visited' = Append(visited, Visit(ei, "saved"))
    /\ ei' = ei + 1
    /\ UNCHANGED <<ingest_pc, ingest_run, feed_result, entries, ingest_exc>>
    /\ UNCHANGED <<ctVars, worldVars, mainVars, embedVars, prevVars, callVars>>

\* fetch_sample_filings: open or write raises; the handler of the sample prints
SampleFails ==
    /\ ingest_pc = "for_samples"
    /\ ei <= Len(entries)
    /\ ~exists(outfile(entries[ei]), output_dir)
    /\ \E opened \in BOOLEAN :
        output_dir' = IF opened
                      THEN Written(output_dir, outfile(entries[ei]),
                                   Content("fetch_sample_filings", FALSE))
                      ELSE output_dir
    /\ visited' = Append(visited, Visit(ei, "error"))
    /\ IF except_Exception("OSError")
       THEN /\ ingest_stdout' = Append(ingest_stdout, "Error with sample")
            /\ ei' = ei + 1
            /\ UNCHANGED <<ingest_pc, ingest_exc>>
       ELSE /\ ingest_exc' = "OSError"
            /\ ingest_pc' = "crashed"
            /\ UNCHANGED <<ingest_stdout, ei>>
    /\ UNCHANGED <<ingest_run, feed_result, entries>>
    /\ UNCHANGED <<ctVars, worldVars, mainVars, embedVars, prevVars, callVars>>

\* the script is run again over the same output directory
IngestRerun ==
    /\ ingest_pc \in {"done", "crashed"}
    /\ ingest_run < MaxIngestRuns
    /\ ingest_run' = ingest_run + 1
    /\ ingest_pc' = "fetch_feed"
    /\ feed_result' = "none"
    /\ entries' = <<>>
    /\ ei' = 0
    /\ visited' = <<>>
    /\ ingest_stdout' = <<>>
    /\ ingest_exc' = ""
    /\ UNCHANGED output_dir
    /\ UNCHANGED <<ctVars, worldVars, mainVars, embedVars, prevVars, callVars>>

NextIngest ==
    \/ FeedParsed
    \/ FeedFails
    \/ EntrySkipped
    \/ DownloadSaves
    \/ DownloadFindsNoHtml
    \/ DownloadRaises
    \/ IngestReturns
    \/ SampleSkipped
    \/ SampleCreated
    \/ SampleFails
    \/ IngestRerun

SpecIngest == InitIngest /\ [][NextIngest]_vars

\* lines of this run that say the fallback ran
FallbackRan ==
    \E n \in 1..Len(ingest_stdout) :
        ingest_stdout[n] = "Using fallback method to download sample filings..."
CountOf(seq, x) == Cardinality({n \in 1..Len(seq) : seq[n] = x})

-----------------------------------------------------------------------------
(* Claims C21..C26 *)

\* C21: chunk count: for a text of n words and a limit L >= 1, chunk_text
\* returns ceil(n / L) chunks, every chunk but the last has L words, a text of
\* 1..L words gives one chunk, and a text of k * L words gives k chunks of L
\* words with no empty chunk after them.
C21_ChunkCount ==
    ct_pc = "returned" =>
        LET n == Len(split(arg_text))
            L == arg_max_tokens
            count == Len(ret_chunks)
        IN /\ count = (n + L - 1) \div L
           /\ \A k \in 1..(count - 1) : Len(split(ret_chunks[k])) = L
           /\ (1 <= n /\ n <= L) => count = 1
           /\ (n % L = 0) =>
                /\ count = n \div L
                /\ \A k \in 1..count : Len(split(ret_chunks[k])) = L

C21_Witness ==
    /\ ct_pc = "returned"
    /\ arg_max_tokens = 2
    /\ Len(split(arg_text)) = 4
    /\ Len(ret_chunks) = 2
    /\ Len(split(ret_chunks[2])) = 2

\* C22: the retry budget is per call: every embed call starts at attempt 1
\* with no wait taken, counts only its own attempts, gives up only after 6
\* failed attempts of its own whatever the calls before it met, takes its own
\* sequence of wait bounds from the start, and leaves the deployment, the
\* index and the printed output as they were.
C22_RetryBudgetPerCall ==
    /\ call_pc = "attempt" =>
        /\ attempt_number = Len(outcomes) + 1
        /\ attempt_number <= 6
        /\ sleeps = Len(outcomes)
    /\ call_pc = "raised" => Len(outcomes) = 6
    /\ \A c \in 1..Len(calls) :
        /\ calls[c].raised => calls[c].attempts = 6
        /\ calls[c].attempts \in 1..6
        /\ Len(calls[c].highs) = calls[c].attempts - 1
        /\ calls[c].highs = SubSeq(<<1, 2, 4, 8, 10>>, 1, calls[c].attempts - 1)
    /\ DEPLOYMENT = "text-embedding-3-large" /\ index = EmptyIndex /\ stdout = <<>>

C22_Witness ==
    /\ Len(calls) = 1
    /\ calls[1].attempts = 3
    /\ ~calls[1].raised
    /\ call_pc = "raised"
    /\ Len(outcomes) = 6
    /\ AllTransient(outcomes)

\* C23: backoff is bounded and only between attempts: a call waits once after
\* every failed attempt that is followed by another attempt, so never before
\* the first attempt and never after the 6th; every wait is at most 10
\* time-units; the upper bound of the first wait is 1 time-unit and the bound
\* never decreases from one wait to the next.
C23_BackoffBounded ==
    call_pc \in {"attempt", "returned", "raised"} =>
        /\ 0 <= wait /\ wait <= 10
        /\ Len(highs) = sleeps
        /\ call_pc = "attempt" => sleeps = attempt_number - 1
        /\ call_pc \in {"returned", "raised"} => sleeps = Len(outcomes) - 1
        /\ sleeps <= 5
        /\ (sleeps = 0 => wait = 0)
        /\ (sleeps > 0 => wait <= highs[sleeps])
        /\ (sleeps > 0 => highs[1] = 1)
        /\ \A k \in 1..Len(highs) : highs[k] <= 10
        /\ \A k \in 1..(Len(highs) - 1) : highs[k] <= highs[k + 1]

C23_Witness ==
    /\ call_pc = "raised"
    /\ sleeps = 5
    /\ highs = <<1, 2, 4, 8, 10>>
    /\ wait = 10

\* C24: a run never removes index entries: every step of main() keeps every
\* id of the index, and changes the entry under an id only when it is the
\* upload of the chunk with that id; the entry an earlier run left under
\* ordinal 2 of a filing that now has two chunks stays as it was.
C24_RunNeverRemovesEntries ==
    /\ [][\A id \in DOMAIN index :
            /\ id \in DOMAIN index'
            /\ index'[id] # index[id] =>
                /\ pc = "upload"
                /\ id = docs[di].path[2] \o "_" \o ToString(ci)]_vars
    /\ [](/\ "ACME-2024-10K_2" \in DOMAIN index
          /\ index["ACME-2024-10K_2"] = StaleIndex(indexDim)[StaleId])

C24_Witness ==
    /\ pc = "done"
    /\ ~ItemFailed
    /\ \E d \in 1..Len(docs) :
        /\ docs[d].path[2] = "ACME-2024-10K"
        /\ Len(ChunksOf(d)) = 2
        /\ WasIndexed(d)
    /\ {"ACME-2024-10K_0", "ACME-2024-10K_1", "ACME-2024-10K_2"} \subseteq DOMAIN index
    /\ index["ACME-2024-10K_2"].content = WordsText(1)

\* C25: filing discovery is best effort per entry: no error leaves the ingest
\* main(); the sample fallback has run only when fetching or parsing the feed
\* failed; with a feed that was parsed, the entries are gone through in
\* order, every failed download has left one printed line, and main() returns
\* only after the last entry.
C25_BestEffortPerEntry ==
    /\ ingest_exc = ""
    /\ ingest_pc # "crashed"
    /\ FallbackRan => feed_result \in {"HTTPError", "AttributeError"}
    /\ ingest_pc = "for_samples" => FallbackRan
    /\ feed_result = "ok" =>
        /\ Len(visited) = ei - 1
        /\ \A k \in 1..Len(visited) : visited[k].e = k
        /\ CountOf(ingest_stdout, "Error:") =
               Cardinality({k \in 1..Len(visited) : visited[k].did = "error"})
        /\ ingest_pc = "done" => Len(visited) = Len(entries)

C25_Witness ==
    /\ ingest_pc = "done"
    /\ feed_result = "ok"
    /\ Len(entries) = 2
    /\ Len(visited) = 2
    /\ visited[1].did = "error"
    /\ visited[2].did = "saved"
    /\ ~FallbackRan

\* C26: ingestion never overwrites a stored filing: no step of main() or
\* fetch_sample_filings changes or removes a file of the output directory,
\* an entry or sample whose file exists is passed over without a download, a
\* write or a printed line, and every file is "{accession}.html" of one
\* accession.
C26_NeverOverwritesStoredFiling ==
    /\ [][/\ \A f \in DOMAIN output_dir :
                /\ f \in DOMAIN output_dir'
                /\ output_dir'[f] = output_dir[f]
          /\ (/\ ingest_pc \in {"for_e", "for_samples"}
              /\ ei <= Len(entries)
              /\ "./data/sec_filings/" \o entries[ei] \o ".html" \in DOMAIN output_dir) =>
                /\ visited' = Append(visited, [e |-> ei, did |-> "skipped"])
                /\ ingest_stdout' = ingest_stdout]_vars
    /\ [](\A f \in DOMAIN output_dir :
            Cardinality({a \in FeedAccessions \cup {samples[k] : k \in 1..Len(samples)} :
                           f = "./data/sec_filings/" \o a \o ".html"}) = 1)

C26_Witness ==
    /\ ingest_run = 2
    /\ ingest_pc = "done"
    /\ feed_result = "ok"
    /\ Len(visited) = 2
    /\ visited[1].did = "skipped"
    /\ entries[1] = "0001000000-24-000001"
    /\ output_dir[outfile(entries[1])] = Content("download_and_extract", TRUE)
    /\ visited[2].did = "saved"

====
